---- MODULE Spec2Model ----
(***************************************************************************)
(* RotaryEncoder<Pos, Tick, Delta> of embtk-rotary-encoder (src/lib.rs).   *)
(*                                                                         *)
(* A tracker is the record of the struct's five fields.  Integers are      *)
(* mathematical values kept inside the range of their Rust type; every     *)
(* arithmetic operation of get_delta is an operator that computes what the *)
(* Rust operation computes (wrapping, casting, truncating division, the    *)
(* overflow-checked `+` of the Tick type).                                 *)
(***************************************************************************)
EXTENDS Integers, Sequences, FiniteSets, TLC

VARIABLES
    enc,             \* the tracker: the fields of struct RotaryEncoder
    pos_type,        \* the type parameter Pos of the tracker
    panicked,        \* the last get_delta call panicked: it never returned
    called,          \* get_delta has returned at least once
    ret,             \* the value the last get_delta call returned
    stale,           \* the last get_delta call took the staleness branch
    call,            \* that call's arguments and the tracker it was made on
    moved_at,        \* ts of the last call whose raw_position was a new one
    calls,           \* number of calls made (counted where the run is capped)
    streak,          \* unit steps one way since the reference was aligned
    sum_deltas,      \* sum of the deltas returned while no call was stale
    never_resynced,  \* no call took the staleness branch so far
    slow,            \* every call so far came after the timeout, a short step
    rise,            \* unit steps up from an aligned reference, all returning 0
    run,             \* unit steps one way, all but the last returning 0
    p,               \* the loop variable of a test that sweeps the counter
    twin             \* a second tracker, Pos = u8, fed the same bit patterns

tracker == <<enc, pos_type, panicked, called, ret, stale>>
observed == <<call, moved_at>>
history == <<streak, sum_deltas, never_resynced>>
motion  == <<slow, rise, run>>
vars    == <<tracker, observed, calls, history, motion, p, twin>>

(***************************************************************************)
(* The integer types the tracker is instantiated with.                     *)
(***************************************************************************)
I8  == [bits |-> 8,  signed |-> TRUE]
U8  == [bits |-> 8,  signed |-> FALSE]
U16 == [bits |-> 16, signed |-> FALSE]

\* Delta is i8 in the crate example and in every test.
Delta == I8

\* Tick is any unsigned bounded integer; u16 here (the arithmetic is the
\* same at every width and the values stay inside the integers of TLC).
Tick == U16

min_value(T) == IF T.signed THEN -(2 ^ (T.bits - 1)) ELSE 0
max_value(T) == IF T.signed THEN 2 ^ (T.bits - 1) - 1 ELSE 2 ^ T.bits - 1

Values(T) == min_value(T) .. max_value(T)

\* The value of type T with the same low T.bits bits as the integer v
\* (two's complement): what wrapping arithmetic and an `as` cast produce.
Wrap(v, T) ==
    LET m == v % (2 ^ T.bits)
    IN  IF T.signed /\ m >= 2 ^ (T.bits - 1) THEN m - 2 ^ T.bits ELSE m

\* A subtraction that stops at the ends of the range instead of wrapping.
saturating_sub(a, b, T) ==
    IF a - b > max_value(T) THEN max_value(T)
    ELSE IF a - b < min_value(T) THEN min_value(T)
    ELSE a - b

wrapping_sub(a, b, T) == Wrap(a - b, T)

wrapping_add(a, b, T) == Wrap(a + b, T)

\* AsPrimitive::as_ : the `as` cast of an integer v to the type To.
as_(v, To) == Wrap(v, To)

Abs(x) == IF x < 0 THEN -x ELSE x

\* Rust `/` on integers: the quotient truncated toward zero.
FloorDiv(a, b) == a \div b

RustDiv(a, b) ==
    IF (a < 0) = (b < 0) THEN Abs(a) \div Abs(b) ELSE -(Abs(a) \div Abs(b))

\* Rust `%` on integers: the remainder has the sign of the dividend.
FloorRem(a, b) == a % b

RustRem(a, b) == a - b * RustDiv(a, b)

\* CheckedSub::checked_sub on Tick: <<>> is None, <<x>> is Some(x).
None == <<>>

checked_sub(a, b) == IF b > a THEN None ELSE <<a - b>>

(***************************************************************************)
(* RotaryEncoder::new and RotaryEncoder::get_delta.                        *)
(***************************************************************************)
new(d, timeout) ==
    [ div                         |-> d,
      last_active                 |-> 0,
      last_effective_raw_position |-> 0,
      last_real_raw_position      |-> 0,
      reset_timeout               |-> timeout ]

\* `self.last_active + self.reset_timeout`: the `+` of Tick leaves the range.
deadline_overflows(self) ==
    self.last_active + self.reset_timeout > max_value(Tick)

\* The sum as the build without overflow checks computes it (it wraps).
deadline(self) == Wrap(self.last_active + self.reset_timeout, Tick)

is_stale_inclusive(self, ts) == checked_sub(deadline(self), ts + 1) = None

\* `(self.last_active + self.reset_timeout).checked_sub(&ts) == None`
is_stale(self, ts) == checked_sub(deadline(self), ts) = None

resync_never(self, ts) == self

\* The staleness branch: the reference jumps to the last observed position.
resync(self, ts) ==
    IF is_stale(self, ts)
    THEN [self EXCEPT !.last_effective_raw_position = self.last_real_raw_position]
    ELSE self

raw_delta_no_wrap(self, Pos, raw_position) ==
    raw_position - self.last_effective_raw_position

raw_delta_no_cast(self, Pos, raw_position) ==
    wrapping_sub(raw_position, self.last_effective_raw_position, Pos)

\* `raw_position.wrapping_sub(&self.last_effective_raw_position).as_()`
raw_delta(self, Pos, raw_position) ==
    as_(wrapping_sub(raw_position, self.last_effective_raw_position, Pos), Delta)

\* `delta / self.div` and `delta % self.div` panic in every build on a zero
\* divisor and on MIN / -1.
division_panics(delta, d) ==
    d = 0 \/ (delta = min_value(Delta) /\ d = -1)

\* `delta - remainder`: the `-` of Delta leaves the range.
whole_overflows(delta, remainder) == delta - remainder \notin Values(Delta)

advance_by_delta(self, Pos, delta, remainder) ==
    [self EXCEPT !.last_effective_raw_position =
        wrapping_add(@, as_(delta, Pos), Pos)]

advance_by_divisions(self, Pos, delta, remainder) ==
    [self EXCEPT !.last_effective_raw_position =
        wrapping_add(@, as_(RustDiv(delta, self.div), Pos), Pos)]

advance_none(self, Pos, delta, remainder) == self

\* `self.last_effective_raw_position.wrapping_add(&(delta - remainder).as_())`
advance(self, Pos, delta, remainder) ==
    [self EXCEPT !.last_effective_raw_position =
        wrapping_add(@, as_(Wrap(delta - remainder, Delta), Pos), Pos)]

bookkeep_always(self, raw_position, ts) ==
    [self EXCEPT !.last_active = ts, !.last_real_raw_position = raw_position]

\* `if self.last_real_raw_position != raw_position { ... }`
bookkeep(self, raw_position, ts) ==
    IF self.last_real_raw_position # raw_position
    THEN [self EXCEPT !.last_active = ts, !.last_real_raw_position = raw_position]
    ELSE self

\* get_delta(&mut self, raw_position, ts): the value it returns
\* (`divisions`), the tracker it leaves, whether it took the staleness
\* branch; whether it panics in every build (the division); and whether an
\* arithmetic overflow occurs, on which a build with overflow checks panics
\* and a build without them goes on with the wrapped value.
get_delta(self, Pos, raw_position, ts) ==
    LET synced    == resync(self, ts)
        delta     == raw_delta(synced, Pos, raw_position)
        divisions == RustDiv(delta, self.div)
        remainder == RustRem(delta, self.div)
    IN  [ panics    |-> division_panics(delta, self.div),
          overflows |-> \/ deadline_overflows(self)
                        \/ whole_overflows(delta, remainder),
          stale     |-> is_stale(self, ts),
          ret       |-> divisions,
          self      |-> bookkeep(advance(synced, Pos, delta, remainder),
                                 raw_position, ts) ]

(***************************************************************************)
(* Inputs. The divisor, the timeout and the timestamps of the crate's      *)
(* example and tests, with timestamps on both sides of the timeout horizon *)
(* and at the top of Tick; raw positions by bit pattern next to zero, next *)
(* to the sign boundary of Delta and next to the top of Pos.               *)
(***************************************************************************)
Reach    == 2       \* raw positions this close to 0 and to the wrap boundary
RunReach == 4       \* the same, where runs of unit steps are followed
MaxTs    == 1       \* early timestamps 0 .. MaxTs
MaxCalls == 2       \* calls on a tracker whose Pos is wider than Delta
SlowCalls == 3      \* calls in a run that is paced by the tracker's timeout

TestDiv     == 4    \* RotaryEncoder::new(4i8, 10u32)
TestTimeout == 10
TestTs      == 1    \* enc.get_delta(_, 1)
SweepEnd    == 512  \* for p in 1..512

RawPatterns(Pos, reach) ==
    (0 .. reach)
        \cup { 2 ^ (Delta.bits - 1) - TestDiv,
               2 ^ (Delta.bits - 1) - 1,
               2 ^ (Delta.bits - 1) }
        \cup ((2 ^ Pos.bits - reach) .. (2 ^ Pos.bits - 1))

RawInputs(Pos, reach) == { as_(b, Pos) : b \in RawPatterns(Pos, reach) }

TsInputs ==
    (0 .. MaxTs)
        \cup {TestTimeout + 1, TestTimeout + 2}
        \cup {max_value(Tick)}

(***************************************************************************)
(* Observations about the run, used to state the properties.               *)
(***************************************************************************)
\* The integer v read as a two's complement number of the given width.
Signed(v, bits) ==
    LET m == v % (2 ^ bits)
    IN  IF m >= 2 ^ (bits - 1) THEN m - 2 ^ bits ELSE m

NoCall == [raw_position |-> 0, ts |-> 0, pre |-> new(1, 0)]

\* ts is no more than reset_timeout after last_active (in the integers).
WithinTimeout(self, ts) == ts <= self.last_active + self.reset_timeout

Aligned(self) == self.last_effective_raw_position = self.last_real_raw_position

\* Consecutive unit steps in one direction, each no earlier than the last
\* movement and within the timeout of it, counted from a tracker whose
\* reference was aligned: +k going up, -k going down.
NextStreak(self, Pos, raw_position, ts) ==
    LET up   == wrapping_add(self.last_real_raw_position, 1, Pos) = raw_position
        down == wrapping_sub(self.last_real_raw_position, 1, Pos) = raw_position
    IN  IF ~(self.last_active <= ts /\ WithinTimeout(self, ts)) THEN 0
        ELSE IF up /\ streak > 0 THEN streak + 1
        ELSE IF down /\ streak < 0 THEN streak - 1
        ELSE IF up /\ Aligned(self) THEN 1
        ELSE IF down /\ Aligned(self) THEN -1
        ELSE 0

\* Unit steps one way in a row, none of them stale, as long as they return
\* 0: +k going up, -k going down; the step that returns another value is the
\* last one counted.
NextRunOfSteps(self, Pos, raw_position, is_stale_call) ==
    LET up   == wrapping_add(self.last_real_raw_position, 1, Pos) = raw_position
        down == wrapping_sub(self.last_real_raw_position, 1, Pos) = raw_position
    IN  IF is_stale_call THEN 0
        ELSE IF up THEN (IF run > 0 /\ ret = 0 THEN run + 1 ELSE 1)
        ELSE IF down THEN (IF run < 0 /\ ret = 0 THEN run - 1 ELSE -1)
        ELSE 0

\* Unit steps up from a tracker whose reference was aligned, all returning
\* 0; the number is kept while unit steps down follow that return 0.
NextRise(self, Pos, raw_position, is_stale_call, returned) ==
    LET up   == wrapping_add(self.last_real_raw_position, 1, Pos) = raw_position
        down == wrapping_sub(self.last_real_raw_position, 1, Pos) = raw_position
    IN  IF is_stale_call THEN 0
        ELSE IF up /\ returned = 0 /\ Aligned(self) THEN 1
        ELSE IF up /\ returned = 0 /\ rise > 0 /\ run > 0 THEN rise + 1
        ELSE IF down /\ rise > 0 /\ (run > 0 \/ ret = 0) THEN rise
        ELSE 0

(***************************************************************************)
(* One call of get_delta on the tracker.  Where an overflow occurs both    *)
(* builds are followed: the one that panics and the one that wraps.        *)
(***************************************************************************)
GetDelta(raw_position, ts) ==
    /\ ~panicked
    /\ \E r \in {get_delta(enc, pos_type, raw_position, ts)} :
        \E checks \in (IF r.overflows THEN BOOLEAN ELSE {FALSE}) :
            IF r.panics \/ (checks /\ r.overflows)
            THEN /\ panicked' = TRUE
                 /\ UNCHANGED <<enc, called, ret, stale>>
            ELSE /\ enc' = r.self
                 /\ called' = TRUE
                 /\ ret' = r.ret
                 /\ stale' = r.stale
                 /\ UNCHANGED panicked
    /\ UNCHANGED pos_type

\* The arguments of a call that returned, and the tracker before it; when
\* the raw position was last seen to differ from that of the call before
\* (before the first call: from the position of the fresh tracker).
Record(raw_position, ts) ==
    IF panicked' THEN UNCHANGED observed
    ELSE /\ call' = [raw_position |-> raw_position, ts |-> ts, pre |-> enc]
         /\ moved_at' = IF raw_position # call.raw_position THEN ts
                         ELSE moved_at

\* What the run so far amounts to, after a call that returned.
Follow(raw_position, ts) ==
    IF panicked' THEN UNCHANGED history
    ELSE /\ streak' = NextStreak(enc, pos_type, raw_position, ts)
         /\ never_resynced' = (never_resynced /\ ~stale')
         /\ sum_deltas' = IF never_resynced /\ ~stale'
                          THEN Wrap(sum_deltas + ret', pos_type) ELSE 0

InitTracker(Pos, d, timeout) ==
    /\ pos_type = Pos
    /\ enc = new(d, timeout)
    /\ panicked = FALSE
    /\ called = FALSE
    /\ ret = 0
    /\ stale = FALSE
    /\ call = NoCall
    /\ moved_at = 0
    /\ calls = 0
    /\ streak = 0
    /\ sum_deltas = 0
    /\ never_resynced = TRUE
    /\ slow = TRUE
    /\ rise = 0
    /\ run = 0
    /\ p = 0
    /\ twin = [enc |-> new(d, timeout), ret |-> 0, panicked |-> FALSE]

(***************************************************************************)
(* Spec: a tracker with Pos = i8 sampled with arbitrary inputs.            *)
(***************************************************************************)
Init == InitTracker(I8, TestDiv, TestTimeout)

Sample ==
    \E raw_position \in RawInputs(pos_type, Reach), ts \in TsInputs :
        /\ GetDelta(raw_position, ts)
        /\ Record(raw_position, ts)
        /\ UNCHANGED <<calls, history, motion, p, twin>>

Next == Sample

Spec == Init /\ [][Next]_vars

(***************************************************************************)
(* SpecWide: the tracker of the crate example, Pos = u16 with Delta = i8,  *)
(* next to one with Pos = i8, with several divisors; the number of calls   *)
(* is capped (the reference of the u16 tracker wanders over all of u16).   *)
(***************************************************************************)
InitWide ==
    \E Pos \in {I8, U16}, d \in {1, 3, TestDiv} :
        InitTracker(Pos, d, TestTimeout)

SampleWide ==
    /\ calls < MaxCalls
    /\ \E raw_position \in RawInputs(pos_type, Reach), ts \in TsInputs :
          /\ GetDelta(raw_position, ts)
          /\ Record(raw_position, ts)
    /\ calls' = calls + 1
    /\ UNCHANGED <<history, motion, p, twin>>

NextWide == SampleWide

SpecWide == InitWide /\ [][NextWide]_vars

(***************************************************************************)
(* SpecRun: arbitrary inputs again, following the run instead of the last  *)
(* call: the streak of unit steps and the sum of the returned deltas.      *)
(***************************************************************************)
InitRun == \E Pos \in {I8, U8} : InitTracker(Pos, TestDiv, TestTimeout)

SampleRun ==
    \E raw_position \in RawInputs(pos_type, RunReach), ts \in TsInputs :
        /\ GetDelta(raw_position, ts)
        /\ Follow(raw_position, ts)
        /\ UNCHANGED <<observed, calls, motion, p, twin>>

NextRun == SampleRun

SpecRun == InitRun /\ [][NextRun]_vars

(***************************************************************************)
(* SpecSweep: the loops of the tests all_the_way_*: one unit step per call *)
(* twice around the 8-bit counter, at ts = 1.  The loops of the *_down     *)
(* tests are written `for p in -1..-512`, a range that is empty in Rust:   *)
(* SweepDown runs their body over p = -1, -2, ..., -511.                   *)
(***************************************************************************)
InitSweep ==
    \E Pos \in {I8, U8}, d \in {1, TestDiv} :
        InitTracker(Pos, d, TestTimeout)

\* `(p % 256) as i8`, `(p % 256) as u8`
sweep_position(q, Pos) == as_(RustRem(q, 256), Pos)

SweepUp ==
    /\ p >= 0
    /\ p + 1 < SweepEnd
    /\ p' = p + 1
    /\ GetDelta(sweep_position(p', pos_type), TestTs)
    /\ Record(sweep_position(p', pos_type), TestTs)
    /\ Follow(sweep_position(p', pos_type), TestTs)
    /\ UNCHANGED <<calls, motion, twin>>

SweepDown ==
    /\ p <= 0
    /\ p - 1 > -SweepEnd
    /\ p' = p - 1
    /\ GetDelta(sweep_position(p', pos_type), TestTs)
    /\ Record(sweep_position(p', pos_type), TestTs)
    /\ Follow(sweep_position(p', pos_type), TestTs)
    /\ UNCHANGED <<calls, motion, twin>>

NextSweep == SweepUp \/ SweepDown

SpecSweep == InitSweep /\ [][NextSweep]_vars

(***************************************************************************)
(* SpecPair: a tracker with Pos = i8 and one with Pos = u8, built alike    *)
(* and fed the same timestamps and the same 8-bit patterns.                *)
(***************************************************************************)
InitPair == \E d \in {1, TestDiv} : InitTracker(I8, d, TestTimeout)

SamplePair ==
    \E b \in RawPatterns(U8, Reach), ts \in TsInputs :
        /\ GetDelta(as_(b, I8), ts)
        /\ \E r \in {get_delta(twin.enc, U8, as_(b, U8), ts)} :
              twin' = IF panicked'
                      THEN [twin EXCEPT !.panicked = r.panics \/ r.overflows]
                      ELSE [enc |-> r.self, ret |-> r.ret, panicked |-> r.panics]
        /\ UNCHANGED <<observed, calls, history, motion, p>>

NextPair == SamplePair

SpecPair == InitPair /\ [][NextPair]_vars

(***************************************************************************)
(* SpecSlow: calls paced by the timeout of the tracker: each at, just      *)
(* after or long after last_active + reset_timeout, or at last_active,     *)
(* moving the raw position by up to one division either way.               *)
(***************************************************************************)
InitSlow ==
    \E Pos \in {I8, U8, U16}, d \in {3, TestDiv} :
        InitTracker(Pos, d, TestTimeout)

TsPaced(self) ==
    { t \in {self.last_active}
             \cup { self.last_active + self.reset_timeout + k : k \in 0 .. MaxTs }
             \cup {max_value(Tick)} :
        t <= max_value(Tick) }

\* The call came later than last_active + reset_timeout and moved the raw
\* position by less than one division.
IsSlow(self, Pos, raw_position, ts) ==
    /\ ts > self.last_active + self.reset_timeout
    /\ Abs(Signed(raw_position - self.last_real_raw_position, Pos.bits))
           < self.div

SampleSlow ==
    /\ calls < SlowCalls
    /\ \E step \in -enc.div .. enc.div, ts \in TsPaced(enc) :
          \E raw_position \in
                {wrapping_add(enc.last_real_raw_position, as_(step, pos_type),
                              pos_type)} :
             /\ GetDelta(raw_position, ts)
             /\ slow' = IF panicked' THEN slow
                        ELSE slow /\ IsSlow(enc, pos_type, raw_position, ts)
    /\ calls' = calls + 1
    /\ UNCHANGED <<observed, history, rise, run, p, twin>>

NextSlow == SampleSlow

SpecSlow == InitSlow /\ [][NextSlow]_vars

(***************************************************************************)
(* SpecTurn: arbitrary inputs, following the unit steps of the raw         *)
(* position up and down through the divisions.                             *)
(***************************************************************************)
InitTurn ==
    \E Pos \in {I8, U8}, d \in {3, TestDiv} :
        InitTracker(Pos, d, TestTimeout)

\* The ts of the tests, one beyond the timeout of it, and the top of Tick.
TsTurn == {TestTs, TestTs + TestTimeout + 1, max_value(Tick)}

Turn(raw_position, ts) ==
    IF panicked' THEN UNCHANGED <<rise, run>>
    ELSE /\ run' = NextRunOfSteps(enc, pos_type, raw_position, stale')
         /\ rise' = NextRise(enc, pos_type, raw_position, stale', ret')

SampleTurn ==
    \E raw_position \in RawInputs(pos_type, RunReach), ts \in TsTurn :
        /\ GetDelta(raw_position, ts)
        /\ Record(raw_position, ts)
        /\ Turn(raw_position, ts)
        /\ UNCHANGED <<calls, history, slow, p, twin>>

NextTurn == SampleTurn

SpecTurn == InitTurn /\ [][NextTurn]_vars

(***************************************************************************)
(* Properties.                                                             *)
(***************************************************************************)
TypeOK ==
    /\ enc.last_effective_raw_position \in Values(pos_type)
    /\ enc.last_real_raw_position \in Values(pos_type)
    /\ enc.last_active \in Values(Tick)

\* q is the quotient of d by dv truncated toward zero: what is left over is
\* smaller than dv and has the sign of d.
IsTruncatedQuotient(q, d, dv) ==
    LET left == d - q * dv
    IN  /\ Abs(left) < Abs(dv)
        /\ left = 0 \/ (left > 0) = (d > 0)

\* The reference the last call measured from (after its staleness branch).
Reference == IF stale THEN call.pre.last_real_raw_position
             ELSE call.pre.last_effective_raw_position

\* The sub-division offset of a tracker: its last raw position minus its
\* reference, wrapped, read as a signed number of the width of Pos.
Offset(self) ==
    Signed(self.last_real_raw_position - self.last_effective_raw_position,
           pos_type.bits)

\* C1 (as claimed): with divisor D > 1, consecutive unit steps in one
\* direction, each within the timeout, counted from a tracker whose reference
\* was aligned, return +1 (-1 going down) on every D-th call and 0 on the
\* others.
C1_EveryDthStep ==
    (enc.div > 1 /\ streak # 0) =>
        ret = IF Abs(streak) % enc.div # 0 THEN 0
              ELSE IF streak > 0 THEN 1 ELSE -1

\* C2: while no call was stale, the reference is, modulo the width of Pos,
\* the divisor times the sum of the deltas returned so far.
C2_ReferenceIsDivTimesSum ==
    never_resynced =>
        (enc.last_effective_raw_position - enc.div * sum_deltas)
            % (2 ^ pos_type.bits) = 0

\* C2 witness: 124 -> 127 -> -128 returned 31, 0, 1: the raw position crossed
\* the wrap boundary in the middle of a division.
C2_Witness ==
    /\ never_resynced
    /\ pos_type = I8
    /\ sum_deltas = 32
    /\ ret = 1
    /\ enc.last_effective_raw_position = min_value(I8)

\* C3: with divisor 1 every unit increment of the sweep returns +1 and every
\* unit decrement -1, the steps across the wrap boundary included.
C3_UnitStepAcrossWrap ==
    (enc.div = 1 /\ called) =>
        /\ p > 0 => ret = 1
        /\ p < 0 => ret = -1

\* C3 witness: the step from the maximum to the minimum of i8, second time
\* around.
C3_Witness ==
    /\ enc.div = 1
    /\ pos_type = I8
    /\ p > 256
    /\ call.pre.last_real_raw_position = max_value(I8)
    /\ call.raw_position = min_value(I8)
    /\ ret = 1

\* The case of C4: the tracker had a sub-division offset and the call came
\* more than reset_timeout after last_active.
C4_Case ==
    /\ called
    /\ Offset(call.pre) # 0
    /\ Abs(Offset(call.pre)) < enc.div
    /\ ~WithinTimeout(call.pre, call.ts)

\* C4: such a call measures from the last observed raw position p: it
\* returns trunc((raw_position - p) / divisor).
C4_TimeoutReReference ==
    C4_Case =>
        IsTruncatedQuotient(
            ret,
            Signed(call.raw_position - call.pre.last_real_raw_position,
                   Delta.bits),
            enc.div)

\* C4 witness: measured from the reference before the gap, the call would
\* have returned a division; it returned none.
C4_Witness ==
    /\ C4_Case
    /\ ret = 0
    /\ Abs(Signed(call.raw_position - call.pre.last_effective_raw_position,
                  Delta.bits)) >= enc.div

\* C5 (as claimed): get_delta never panics.
C5_NeverPanics == ~panicked

\* C6: the value returned is the quotient, truncated toward zero, of the
\* wrapped signed difference d between raw_position and the reference; what
\* is left of d is the offset the tracker retains.
C6_TruncatedQuotient ==
    called =>
        LET d == Signed(call.raw_position - Reference, Delta.bits)
        IN  /\ IsTruncatedQuotient(ret, d, enc.div)
            /\ Signed(Offset(enc), Delta.bits) = d - ret * enc.div
            /\ enc.div = 1 => ret = d

\* C6 witness: a negative difference that is no multiple of the divisor.
C6_Witness ==
    /\ called
    /\ enc.div = TestDiv
    /\ ret < 0
    /\ Offset(enc) < 0

\* The case of C7: the call repeats the raw position of the tracker, later
\* than the last movement and within the timeout.
C7_Case ==
    /\ called
    /\ call.raw_position = call.pre.last_real_raw_position
    /\ call.ts > call.pre.last_active
    /\ WithinTimeout(call.pre, call.ts)

\* C7: a call that repeats the raw position within the timeout returns 0.
C7_ZeroMovement == C7_Case => ret = 0

\* C7 witness: the repeated position is off the reference.
C7_Witness ==
    /\ C7_Case
    /\ Offset(call.pre) # 0
    /\ ret = 0

\* C8: the tracker with Pos = u8 returns what the tracker with Pos = i8
\* returns, call by call.
C8_SignednessIrrelevant ==
    /\ panicked = twin.panicked
    /\ called => ret = twin.ret

\* C8 witness: the u8 tracker stepped from 0 to 255, a wrapped difference of
\* 255, and returned -1.
C8_Witness ==
    /\ called
    /\ enc.div = 1
    /\ twin.enc.last_real_raw_position = 255
    /\ enc.last_real_raw_position = -1
    /\ twin.ret = -1

\* C9 (as claimed): after a call that was not stale, the wrapped difference
\* between the raw position and the reference, read as a signed number of
\* the width of Pos, is smaller than the divisor.
C9_WithinOneDivision ==
    (called /\ ~stale) => Abs(Offset(enc)) < enc.div

\* C9 (amended): it is that difference cast to Delta that is smaller than the
\* divisor; the difference itself is when Pos is no wider than Delta.
C9_WithinOneDivisionOfDelta ==
    (called /\ ~stale) =>
        /\ Abs(Signed(Offset(enc), Delta.bits)) < enc.div
        /\ pos_type.bits <= Delta.bits => Abs(Offset(enc)) < enc.div

\* C9 witness: the call advanced the reference and left an offset.
C9_Witness ==
    /\ called
    /\ ~stale
    /\ ret # 0
    /\ Offset(enc) # 0

C11_Case == called /\ ~deadline_overflows(call.pre)

\* C11: such a call takes the staleness branch exactly when
\* ts > last_active + reset_timeout, and then measures from the last observed
\* raw position; at ts = last_active + reset_timeout and earlier, before
\* last_active included, it measures from the reference it had.
C11_StrictBoundary ==
    C11_Case =>
        LET late == call.ts > call.pre.last_active + call.pre.reset_timeout
            from == IF late THEN call.pre.last_real_raw_position
                    ELSE call.pre.last_effective_raw_position
        IN  /\ stale <=> late
            /\ IsTruncatedQuotient(
                   ret, Signed(call.raw_position - from, Delta.bits), enc.div)
            /\ ~late => Signed(Offset(enc), Delta.bits) =
                            Signed(call.raw_position - from, Delta.bits)
                                - ret * enc.div

\* C11 witness: a call exactly reset_timeout after a movement that left an
\* offset; it did not resynchronize, and so returned a division that a
\* resynchronized call would not have returned.
C11_Witness ==
    /\ C11_Case
    /\ call.pre.last_active > 0
    /\ call.ts = call.pre.last_active + call.pre.reset_timeout
    /\ ~stale
    /\ ret # 0
    /\ Abs(Signed(call.raw_position - call.pre.last_real_raw_position,
                  Delta.bits)) < enc.div

\* C12: a call that repeats last_real_raw_position leaves it and last_active
\* as they were; a call with another raw position sets last_active to its ts
\* and last_real_raw_position to its raw position.  So last_real_raw_position
\* is the raw position of the last call, and last_active the ts of the last
\* call whose raw position differed from that of the call before it.
C12_MovementBookkeeping ==
    /\ enc.last_active = moved_at
    /\ called =>
        /\ enc.last_real_raw_position = call.raw_position
        /\ IF call.raw_position = call.pre.last_real_raw_position
           THEN /\ enc.last_active = call.pre.last_active
                /\ enc.last_real_raw_position = call.pre.last_real_raw_position
           ELSE /\ enc.last_active = call.ts
                /\ enc.last_real_raw_position = call.raw_position

\* C12 witness: a stationary sample taken after the timeout had passed, on a
\* tracker that had moved: the staleness clock was not restarted.
C12_Witness ==
    /\ called
    /\ call.raw_position = call.pre.last_real_raw_position
    /\ call.pre.last_active > 0
    /\ call.ts > call.pre.last_active + call.pre.reset_timeout
    /\ enc.last_active = call.pre.last_active
    /\ moved_at = call.pre.last_active

\* C13: with divisor D > 1, while every call since the tracker was built
\* came later than last_active + reset_timeout and moved the raw position by
\* less than D, every call returned 0.
C13_SlowMovementUnreported ==
    (called /\ slow /\ enc.div > 1) => ret = 0

\* C13 witness: three or more such calls, each D - 1 raw ticks up: the raw
\* position is several divisions away from where it started.
C13_Witness ==
    /\ called
    /\ slow
    /\ pos_type = I8
    /\ enc.div = TestDiv
    /\ calls >= 3
    /\ enc.last_real_raw_position = (TestDiv - 1) * calls
    /\ ret = 0

\* C14: with Pos as wide as Delta, in every state the wrapped signed
\* difference last_real_raw_position - last_effective_raw_position is
\* smaller in magnitude than the divisor, after a stale call too; so the
\* staleness branch moved the reference by less than the divisor.
C14_NoWholeDivisionDiscarded ==
    pos_type.bits = Delta.bits =>
        /\ Abs(Offset(enc)) < enc.div
        /\ (called /\ stale) =>
              Abs(Signed(Reference - call.pre.last_effective_raw_position,
                         pos_type.bits)) < enc.div

\* C14 witness: a stale call on a tracker whose offset was the largest there
\* is, divisor - 1; it left an offset in its turn.
C14_Witness ==
    /\ called
    /\ stale
    /\ Abs(Offset(call.pre)) = enc.div - 1
    /\ Reference # call.pre.last_effective_raw_position
    /\ Offset(enc) # 0

\* The case of C16: the call repeats the raw position of the call before it
\* (of the fresh tracker, if it is the first).
C16_Case ==
    /\ called
    /\ call.raw_position = call.pre.last_real_raw_position

\* C16: a call that repeats the raw position returns 0 whatever its ts:
\* within the timeout, after it, at or before the ts of the call before.
C16_RepeatReturnsZero == C16_Case => ret = 0

\* C16 witness: the second call repeats a position that is off the
\* reference, at a ts earlier than that of the first call.
C16_Witness ==
    /\ C16_Case
    /\ calls = 2
    /\ call.ts < call.pre.last_active
    /\ Offset(call.pre) # 0
    /\ ret = 0

\* The case of C15: r = rise unit steps up from an aligned reference, all
\* returning 0, then -run unit steps down, none of the calls stale.
C15_Reversal == enc.div > 1 /\ rise > 0 /\ run < 0

\* The unit steps one way in a row, none stale, that returned 0.
ZeroRun == Abs(run) - (IF ret # 0 THEN 1 ELSE 0)

\* What C15 says of the steps before the first division: every decrement
\* before the (r + D)-th returns 0 and that one returns -1; a value other
\* than 0 is returned only D raw ticks or more from the reference.
C15_FirstDivisionAfterReversal ==
    /\ C15_Reversal =>
          /\ -run <= rise + enc.div
          /\ ret = IF -run < rise + enc.div THEN 0 ELSE -1
    /\ (called /\ enc.div > 1 /\ ret # 0) =>
          Abs(Signed(call.raw_position - Reference, Delta.bits)) >= enc.div

\* C15 (as claimed): ... so up to 2D - 1 unit steps one way in a row return
\* 0: at the widest, r = D - 1, the first 2D - 1 decrements.
C15_DeadZoneOfTwoDMinusOneSteps ==
    /\ C15_FirstDivisionAfterReversal
    /\ (C15_Reversal /\ rise = enc.div - 1 /\ -run <= 2 * enc.div - 1) =>
          ret = 0

\* C15 (amended): ... so up to 2D - 2 unit steps one way in a row return 0:
\* at the widest, r = D - 1, the first 2D - 2 decrements, the (2D - 1)-th
\* returning -1; and no run of unit steps without a stale call does more.
C15_DeadZoneOfTwoDMinusTwoSteps ==
    /\ C15_FirstDivisionAfterReversal
    /\ (C15_Reversal /\ rise = enc.div - 1 /\ -run <= 2 * enc.div - 2) =>
          ret = 0
    /\ enc.div > 1 => ZeroRun <= 2 * enc.div - 2

\* C15 witness: D - 1 steps up, then 2D - 1 steps down: the last one is the
\* first to return -1, after 2D - 2 that returned 0.
C15_Witness ==
    /\ C15_Reversal
    /\ enc.div = TestDiv
    /\ rise = TestDiv - 1
    /\ run = -(2 * TestDiv - 1)
    /\ ZeroRun = 2 * TestDiv - 2
    /\ ret = -1
====
